---------------------------- MODULE Spec2Model ----------------------------
(***************************************************************************)
(* A model of three parts of the repository:                               *)
(*   - ParquetTable (table_function/table.rs): construction from glob      *)
(*     arguments, schema inference, and the per-call metadata read;        *)
(*   - ParquetPartInfo (parquet_part.rs): equals, hash, create, from_part; *)
(*   - BufferReadStringExt (cursor_read_string_ext.rs): the two string     *)
(*     readers over a byte cursor.                                         *)
(* Spec is the table machine, SpecPart the partition machine, SpecCursor   *)
(* the cursor machine.  Each machine leaves the other machines' variables  *)
(* at their idle values.                                                   *)
(*                                                                         *)
(* The table machine runs beside an environment that changes the files.    *)
(* ParquetTable::create and read_file_metas touch the file system once per *)
(* argument and once per file, so each of them is a sequence of steps, one *)
(* per file system access, and the environment may act between two steps.  *)
(***************************************************************************)
EXTENDS Integers, Sequences, FiniteSets, TLC

VARIABLES
    allow_insecure, \* GlobalConfig::instance().storage.allow_insecure
    fs,             \* the files: file name -> content
    listable,       \* whether the directory the patterns walk can be listed
    call_args,      \* the table_args of the running or last ParquetTable::create
    creating,       \* the locals of ParquetTable::create: pc, loop index, file_locations
    created,        \* outcome of the last ParquetTable::create (holds the table)
    reading,        \* the locals of read_file_metas: pc, index, entries collected
    lastRead,       \* outcome of the last read_file_metas on the table
    last,           \* the operation that took the last step
    partA, partB,   \* two partition descriptors (Arc<Box<dyn PartInfo>>)
    out,            \* outcome of the last operation on the descriptors
    cur             \* the cursor machine: input, position, output buffer, pc

vars == <<allow_insecure, fs, listable, call_args, creating, created, reading, lastRead, last, partA, partB, out, cur>>
tableVars == <<allow_insecure, fs, listable, call_args, creating, created, reading, lastRead, last>>
partVars == <<partA, partB, out>>

(***************************************************************************)
(* Bounds                                                                  *)
(***************************************************************************)
MaxArgs == 2
NumCols == 1
MaxLen == 4

(***************************************************************************)
(* Generic helpers                                                         *)
(***************************************************************************)
Range(s) == {s[i] : i \in 1..Len(s)}

SeqsUpTo(S, n) == UNION {[1..k -> S] : k \in 0..n}

(***************************************************************************)
(* The file system as the table function sees it.                          *)
(* A file is missing, corrupt (opens, but its footer does not decode) or   *)
(* holds a FileMetaData.                                                   *)
(***************************************************************************)
FileNames == {<<"a">>, <<"b">>}

ColId == [name |-> <<"I", "d">>, type |-> "Int64"]
ColName == [name |-> <<"N", "a", "m", "e">>, type |-> "Utf8"]

MetaA == [num_rows |-> 2, row_groups |-> << [columns |-> <<ColId, ColName>>] >>, ok |-> TRUE, missing |-> FALSE]
MetaB == [num_rows |-> 1, row_groups |-> << [columns |-> <<ColName>>], [columns |-> <<ColName>>] >>, ok |-> TRUE, missing |-> FALSE]
MetaEmpty == [num_rows |-> 0, row_groups |-> <<>>, ok |-> TRUE, missing |-> FALSE]
Corrupt == [num_rows |-> 0, row_groups |-> <<>>, ok |-> FALSE, missing |-> FALSE]
Missing == [num_rows |-> 0, row_groups |-> <<>>, ok |-> FALSE, missing |-> TRUE]

Metas == {MetaA, MetaB, MetaEmpty}
Contents == Metas \cup {Corrupt, Missing}

ContentOf(fsys, location) == IF location \in DOMAIN fsys THEN fsys[location] ELSE Missing

(***************************************************************************)
(* The glob crate, as far as create uses it: a pattern is a sequence of    *)
(* characters; "*" matches any run of characters, "[" opens a character    *)
(* class (never closed over this alphabet, so the pattern is malformed).   *)
(***************************************************************************)
Patterns == {<<"a">>, <<"*">>, <<"[">>, <<"b", "*">>}

CharRank(c) == CASE c = "a" -> 1 [] c = "b" -> 2 [] OTHER -> 3

RECURSIVE LexLess(_, _)
LexLess(s, t) ==
    IF t = <<>> THEN FALSE
    ELSE IF s = <<>> THEN TRUE
    ELSE IF CharRank(Head(s)) # CharRank(Head(t)) THEN CharRank(Head(s)) < CharRank(Head(t))
    ELSE LexLess(Tail(s), Tail(t))

RECURSIVE SortNames(_)
SortNames(S) ==
    IF S = {} THEN <<>>
    ELSE LET m == CHOOSE x \in S : \A y \in S \ {x} : LexLess(x, y)
         IN <<m>> \o SortNames(S \ {m})

RECURSIVE GlobMatch(_, _)
GlobMatch(p, s) ==
    IF p = <<>> THEN s = <<>>
    ELSE IF Head(p) = "*" THEN GlobMatch(Tail(p), s) \/ (s # <<>> /\ GlobMatch(p, Tail(s)))
    ELSE s # <<>> /\ Head(p) = Head(s) /\ GlobMatch(Tail(p), Tail(s))

PatternValid(p) == "[" \notin Range(p)
HasWildcard(p) == "*" \in Range(p)
Exists(fsys, f) == ~ContentOf(fsys, f).missing

\* Display of glob::PatternError: the position of the character class that is
\* never closed (counted from 0) and the crate's text for it.
PatternErrorText(p) ==
    <<"Pattern syntax error near position",
      (CHOOSE i \in 1..Len(p) : p[i] = "[" /\ \A j \in 1..(i - 1) : p[j] # "[") - 1,
      "invalid range pattern">>

\* Display of glob::GlobError: the directory that could not be read and the io
\* error; the patterns are relative, so the directory is the current one.
GlobErrorText(entry) == <<"attempt to read", entry.path, "resulted in an error", entry.error>>

\* The entries glob::glob(p) yields: Ok(path) per match in ascending order, or an
\* Err entry when the directory a wildcard has to walk cannot be listed.
GlobPaths(p, fsys, canList) ==
    IF ~HasWildcard(p)
    THEN IF Exists(fsys, p) THEN << [ok |-> TRUE, path |-> p, error |-> ""] >> ELSE <<>>
    ELSE IF ~canList
    THEN << [ok |-> FALSE, path |-> <<".">>, error |-> "Permission denied (os error 13)"] >>
    ELSE LET names == SortNames({f \in DOMAIN fsys : Exists(fsys, f) /\ GlobMatch(p, f)})
         IN [i \in 1..Len(names) |-> [ok |-> TRUE, path |-> names[i], error |-> ""]]

(***************************************************************************)
(* DataValue arguments                                                     *)
(***************************************************************************)
StrArg(p) == [t |-> "String", utf8 |-> TRUE, text |-> p]
BadUtf8Arg == [t |-> "String", utf8 |-> FALSE, text |-> <<>>]
NumArg == [t |-> "UInt64", utf8 |-> FALSE, text |-> <<>>]
ArgValues == {StrArg(p) : p \in Patterns} \cup {BadUtf8Arg, NumArg}

\* TableArgs = Option<Vec<DataValue>>
NoArgs == [some |-> FALSE, v |-> <<>>]
SomeArgs(v) == [some |-> TRUE, v |-> v]
TableArgsValues == {NoArgs} \cup {SomeArgs(v) : v \in SeqsUpTo(ArgValues, MaxArgs)}

(***************************************************************************)
(* Results.  One record shape for every Result<...> of the table machine.  *)
(* kind "Next" is not a result: the function goes on with its next step.   *)
(***************************************************************************)
Ret(kind, code, msg, value, trace) ==
    [kind |-> kind, code |-> code, msg |-> msg, value |-> value, trace |-> trace]
NoCall == Ret("None", "", <<>>, <<>>, <<>>)

(***************************************************************************)
(* read_parquet_meta and infer_schema                                      *)
(***************************************************************************)
read_parquet_meta(location, fsys) ==
    LET c == ContentOf(fsys, location) IN
    IF c.missing
    THEN Ret("Err", "Internal", <<"Failed to open file", location>>, <<>>, << <<"open", location>> >>)
    ELSE IF ~c.ok
    THEN Ret("Err", "Internal", <<"Read parquet file meta error", location>>, <<>>, << <<"open", location>> >>)
    ELSE Ret("Ok", "", <<>>, c, << <<"open", location>> >>)

LowerChar(c) ==
    CASE c = "I" -> "i" [] c = "N" -> "n" [] c = "D" -> "d" [] c = "A" -> "a"
      [] c = "M" -> "m" [] c = "E" -> "e" [] OTHER -> c

to_lowercase(name) == [i \in 1..Len(name) |-> LowerChar(name[i])]

\* parquet_to_arrow_schema followed by DataSchema::from: one field per parquet
\* field, the name kept, the type mapped.
DataTypeOf(t) == CASE t = "Utf8" -> "String" [] OTHER -> t

infer_schema(location, fsys) ==
    LET r == read_parquet_meta(location, fsys) IN
    IF r.kind # "Ok" THEN r
    ELSE IF r.value.row_groups = <<>>
    THEN Ret("Err", "Internal", <<"No row groups found in parquet file", location>>, <<>>, r.trace)
    ELSE LET column_metas == r.value.row_groups[1].columns
             parquet_fields == [i \in 1..Len(column_metas) |->
                                  [name |-> to_lowercase(column_metas[i].name),
                                   type |-> column_metas[i].type]]
         IN Ret("Ok", "", <<>>,
                [i \in 1..Len(parquet_fields) |->
                    [name |-> parquet_fields[i].name, type |-> DataTypeOf(parquet_fields[i].type)]],
                r.trace)

(***************************************************************************)
(* ParquetTable::create, in the three stretches between which the file     *)
(* system may change: the checks on entry, one iteration of the loop over  *)
(* table_args, and the rest after the loop.                                *)
(***************************************************************************)
InsecureErr ==
    Ret("Err", "StorageInsecure",
        <<"Should enable allow_insecure to use table function read_parquet">>, <<>>, <<>>)
NoArgumentErr ==
    Ret("Err", "BadArguments", <<"read_parquet needs at least one argument">>, <<>>, <<>>)
NoMatchErr(trace) ==
    Ret("Err", "BadArguments", <<"No matched files found for read_parquet">>, <<>>, trace)

\* Mutant of create_checks: the argument-count check runs before the
\* allow_insecure check.
create_checks_flag_after_args(table_args, allow) ==
    IF ~table_args.some \/ table_args.v = <<>> THEN NoArgumentErr
    ELSE IF ~allow THEN InsecureErr
    ELSE Ret("Next", "", <<>>, <<>>, <<>>)

\* The two checks create makes before it looks at an argument.
create_checks(table_args, allow) ==
    IF ~allow THEN InsecureErr
    ELSE IF ~table_args.some \/ table_args.v = <<>> THEN NoArgumentErr
    ELSE Ret("Next", "", <<>>, <<>>, <<>>)

\* Mutant of expand_arg: an argument that is not a string is skipped.
expand_arg_skip_other(arg, i, file_locations, trace, fsys, canList) ==
    LET seen == Append(trace, <<"arg", i>>) IN
    IF arg.t = "String"
    THEN IF ~arg.utf8
         THEN Ret("Panic", "Utf8Error", <<"called Result::unwrap() on an Err value">>, <<>>, seen)
         ELSE LET globbed == Append(seen, <<"glob", arg.text>>) IN
              IF ~PatternValid(arg.text)
              THEN Ret("Err", "Internal", <<"glob error">> \o PatternErrorText(arg.text), <<>>, globbed)
              ELSE LET paths == GlobPaths(arg.text, fsys, canList) IN
                   IF \E k \in 1..Len(paths) : ~paths[k].ok
                   THEN LET k == CHOOSE x \in 1..Len(paths) :
                                    ~paths[x].ok /\ \A y \in 1..(x - 1) : paths[y].ok
                        IN Ret("Err", "Internal", <<"glob error">> \o GlobErrorText(paths[k]), <<>>, globbed)
                   ELSE Ret("Next", "", <<>>,
                            file_locations \o [k \in 1..Len(paths) |-> paths[k].path], globbed)
    ELSE Ret("Next", "", <<>>, file_locations, seen)

\* One iteration of the loop over table_args, for argument arg at index i:
\* file_locations is the list so far, trace the arguments inspected and the
\* patterns expanded so far.
expand_arg(arg, i, file_locations, trace, fsys, canList) ==
    LET seen == Append(trace, <<"arg", i>>) IN
    IF arg.t = "String"
    THEN IF ~arg.utf8
         THEN Ret("Panic", "Utf8Error", <<"called Result::unwrap() on an Err value">>, <<>>, seen)
         ELSE LET globbed == Append(seen, <<"glob", arg.text>>) IN
              IF ~PatternValid(arg.text)
              THEN Ret("Err", "Internal", <<"glob error">> \o PatternErrorText(arg.text), <<>>, globbed)
              ELSE LET paths == GlobPaths(arg.text, fsys, canList) IN
                   IF \E k \in 1..Len(paths) : ~paths[k].ok
                   THEN LET k == CHOOSE x \in 1..Len(paths) :
                                    ~paths[x].ok /\ \A y \in 1..(x - 1) : paths[y].ok
                        IN Ret("Err", "Internal", <<"glob error">> \o GlobErrorText(paths[k]), <<>>, globbed)
                   ELSE Ret("Next", "", <<>>,
                            file_locations \o [k \in 1..Len(paths) |-> paths[k].path], globbed)
    ELSE Ret("Err", "BadArguments", <<"read_parquet only accepts string arguments">>, <<>>, seen)

\* The ParquetTable value create returns: the arguments, the resolved files, the
\* TableInfo built around the inferred schema, and the fs operator rooted at "/".
new_table(database_name, table_func_name, table_id, table_args, file_locations, schema) ==
    [table_args |-> table_args,
     file_locations |-> file_locations,
     table_info |-> [table_id |-> table_id,
                     desc |-> <<database_name, table_func_name>>,
                     name |-> table_func_name,
                     schema |-> schema,
                     engine |-> "SystemReadParquet",
                     created_on |-> 0,
                     updated_on |-> 0],
     operator_root |-> "/"]

\* Mutant of create_finish: an empty file list is reported with the message of an
\* empty argument list.
create_finish_one_message(database_name, table_func_name, table_id, table_args, file_locations, trace, fsys) ==
    IF file_locations = <<>> THEN NoArgumentErr
    ELSE LET schema == infer_schema(file_locations[1], fsys) IN
         IF schema.kind # "Ok"
         THEN Ret(schema.kind, schema.code, schema.msg, <<>>, trace \o schema.trace)
         ELSE Ret("Ok", "", <<>>,
                  new_table(database_name, table_func_name, table_id, table_args,
                            file_locations, schema.value),
                  trace \o schema.trace)

\* Mutant of create_finish: the schema is inferred from the last resolved file.
create_finish_infer_last(database_name, table_func_name, table_id, table_args, file_locations, trace, fsys) ==
    IF file_locations = <<>> THEN NoMatchErr(trace)
    ELSE LET schema == infer_schema(file_locations[Len(file_locations)], fsys) IN
         IF schema.kind # "Ok"
         THEN Ret(schema.kind, schema.code, schema.msg, <<>>, trace \o schema.trace)
         ELSE Ret("Ok", "", <<>>,
                  new_table(database_name, table_func_name, table_id, table_args,
                            file_locations, schema.value),
                  trace \o schema.trace)

\* create after the loop: the empty-list check, infer_schema on the first file,
\* and the table built around the schema.
create_finish(database_name, table_func_name, table_id, table_args, file_locations, trace, fsys) ==
    IF file_locations = <<>> THEN NoMatchErr(trace)
    ELSE LET schema == infer_schema(file_locations[1], fsys) IN
         IF schema.kind # "Ok"
         THEN Ret(schema.kind, schema.code, schema.msg, <<>>, trace \o schema.trace)
         ELSE Ret("Ok", "", <<>>,
                  new_table(database_name, table_func_name, table_id, table_args,
                            file_locations, schema.value),
                  trace \o schema.trace)

(***************************************************************************)
(* ParquetTable::read_file_metas                                           *)
(***************************************************************************)
\* Mutant of read_file_meta: a file that cannot be read is left out of the result.
read_file_meta_skip_failed(self, i, acc, trace, fsys) ==
    LET location == self.file_locations[i]
        r == read_parquet_meta(location, fsys)
        metas == IF r.kind = "Ok"
                 THEN Append(acc, [location |-> location, file_meta |-> r.value])
                 ELSE acc
    IN Ret(IF i = Len(self.file_locations) THEN "Ok" ELSE "Next", "", <<>>, metas, trace \o r.trace)

\* The closure of the map over file_locations, applied to the file at index i, and
\* what collect does with its result: an Err ends the call at once, an Ok is
\* appended to the entries acc, and the call ends with them after the last file.
read_file_meta(self, i, acc, trace, fsys) ==
    LET location == self.file_locations[i]
        r == read_parquet_meta(location, fsys)
    IN IF r.kind # "Ok"
       THEN Ret(r.kind, r.code, r.msg, <<>>, trace \o r.trace)
       ELSE Ret(IF i = Len(self.file_locations) THEN "Ok" ELSE "Next", "", <<>>,
                Append(acc, [location |-> location, file_meta |-> r.value]),
                trace \o r.trace)

(***************************************************************************)
(* The table machine                                                       *)
(***************************************************************************)
IdlePart == [made |-> FALSE, given |-> <<>>, ptr |-> <<>>]
IdleOut == [op |-> "none", ok |-> FALSE, value |-> <<>>]
IdleCur == [fn |-> "none", data |-> <<>>, pos |-> 0, buf |-> <<>>, quota |-> 0,
            overflow_checks |-> FALSE, pc |-> "idle", err |-> ""]
IdleCreating == [pc |-> "idle", i |-> 0, file_locations |-> <<>>, trace |-> <<>>]
IdleReading == [pc |-> "idle", i |-> 0, acc |-> <<>>, trace |-> <<>>]

TableIdle ==
    /\ allow_insecure = FALSE
    /\ fs = [f \in FileNames |-> Missing]
    /\ listable = TRUE
    /\ call_args = NoArgs
    /\ creating = IdleCreating
    /\ created = NoCall
    /\ reading = IdleReading
    /\ lastRead = NoCall
    /\ last = "none"
PartIdle == partA = IdlePart /\ partB = IdlePart /\ out = IdleOut
CursorIdle == cur = IdleCur

Init ==
    /\ allow_insecure \in BOOLEAN
    /\ fs \in [FileNames -> Contents]
    /\ listable \in BOOLEAN
    /\ call_args = NoArgs
    /\ creating = IdleCreating
    /\ created = NoCall
    /\ reading = IdleReading
    /\ lastRead = NoCall
    /\ last = "none"
    /\ PartIdle
    /\ CursorIdle

\* ParquetTable::create is called and makes its checks on entry.  One table
\* function per query plan: create runs when the plan holds none.
Create ==
    /\ creating.pc = "idle"
    /\ \E table_args \in TableArgsValues :
          /\ call_args' = table_args
          /\ LET r == create_checks(table_args, allow_insecure) IN
             IF r.kind = "Next"
             THEN /\ creating' = [pc |-> "expand", i |-> 1, file_locations |-> <<>>, trace |-> <<>>]
                  /\ created' = NoCall
             ELSE /\ creating' = [IdleCreating EXCEPT !.pc = "done"]
                  /\ created' = r
    /\ last' = "create"
    /\ UNCHANGED <<allow_insecure, fs, listable, reading, lastRead, partA, partB, out, cur>>

\* create handles the argument at index creating.i.
CreateExpand ==
    /\ creating.pc = "expand"
    /\ LET i == creating.i
           r == expand_arg(call_args.v[i], i, creating.file_locations, creating.trace, fs, listable)
       IN IF r.kind = "Next"
          THEN /\ creating' = [pc |-> IF i = Len(call_args.v) THEN "finish" ELSE "expand",
                               i |-> i + 1, file_locations |-> r.value, trace |-> r.trace]
               /\ created' = NoCall
          ELSE /\ creating' = [creating EXCEPT !.pc = "done", !.trace = r.trace]
               /\ created' = r
    /\ last' = "create"
    /\ UNCHANGED <<allow_insecure, fs, listable, call_args, reading, lastRead, partA, partB, out, cur>>

\* create leaves the loop, infers the schema and returns.
CreateFinish ==
    /\ creating.pc = "finish"
    /\ created' = create_finish("default", "read_parquet", 1, call_args.v,
                                creating.file_locations, creating.trace, fs)
    /\ creating' = [creating EXCEPT !.pc = "done", !.trace = created'.trace]
    /\ last' = "create"
    /\ UNCHANGED <<allow_insecure, fs, listable, call_args, reading, lastRead, partA, partB, out, cur>>

\* Mutant of ReadFileMetas: the metadata of a successful call is kept and returned
\* by the calls after it.
ReadFileMetasCached ==
    /\ created.kind = "Ok"
    /\ reading.pc # "read"
    /\ IF lastRead.kind = "Ok"
       THEN UNCHANGED <<reading, lastRead>>
       ELSE /\ reading' = [pc |-> "read", i |-> 1, acc |-> <<>>, trace |-> <<>>]
            /\ lastRead' = NoCall
    /\ last' = "read"
    /\ UNCHANGED <<allow_insecure, fs, listable, call_args, creating, created, partA, partB, out, cur>>

\* read_file_metas is called on the table: it starts from an empty collection.
ReadFileMetas ==
    /\ created.kind = "Ok"
    /\ reading.pc # "read"
    /\ reading' = [pc |-> "read", i |-> 1, acc |-> <<>>, trace |-> <<>>]
    /\ lastRead' = NoCall
    /\ last' = "read"
    /\ UNCHANGED <<allow_insecure, fs, listable, call_args, creating, created, partA, partB, out, cur>>

\* read_file_metas opens and decodes the file at index reading.i.
ReadFileMeta ==
    /\ reading.pc = "read"
    /\ LET r == read_file_meta(created.value, reading.i, reading.acc, reading.trace, fs) IN
       IF r.kind = "Next"
       THEN /\ reading' = [pc |-> "read", i |-> reading.i + 1, acc |-> r.value, trace |-> r.trace]
            /\ lastRead' = NoCall
       ELSE /\ reading' = [reading EXCEPT !.pc = "done", !.acc = <<>>, !.trace = r.trace]
            /\ lastRead' = r
    /\ last' = "read"
    /\ UNCHANGED <<allow_insecure, fs, listable, call_args, creating, created, partA, partB, out, cur>>

\* The environment rewrites, removes, corrupts or restores one file.
FsChange ==
    /\ \E f \in FileNames, c \in Contents :
          /\ c # fs[f]
          /\ fs' = [fs EXCEPT ![f] = c]
    /\ last' = "fs"
    /\ UNCHANGED <<allow_insecure, listable, call_args, creating, created, reading, lastRead, partA, partB, out, cur>>

\* The environment changes the permissions of the walked directory.  Only the
\* expansions of create look at them, so changes after the last expansion of a
\* call are left out.
FsChmod ==
    /\ creating.pc \in {"idle", "expand"}
    /\ listable' = ~listable
    /\ last' = "fs"
    /\ UNCHANGED <<allow_insecure, fs, call_args, creating, created, reading, lastRead, partA, partB, out, cur>>

\* The query plan holding the table function is dropped once no call runs on it.
Drop ==
    /\ creating.pc = "done"
    /\ reading.pc # "read"
    /\ creating' = IdleCreating
    /\ created' = NoCall
    /\ call_args' = NoArgs
    /\ reading' = IdleReading
    /\ lastRead' = NoCall
    /\ last' = "drop"
    /\ UNCHANGED <<allow_insecure, fs, listable, partA, partB, out, cur>>

Next ==
    \/ Create \/ CreateExpand \/ CreateFinish
    \/ ReadFileMetas \/ ReadFileMeta
    \/ FsChange \/ FsChmod \/ Drop

Spec == Init /\ [][Next]_vars

(***************************************************************************)
(* Vocabulary of the construction claims, stated on the inputs of the call *)
(* (the arguments, the flag, the files at the moment of a step) and on the *)
(* locals of create, not on the operators above.                           *)
(***************************************************************************)
CreateDone == creating.pc = "done"
ArgList == call_args.v
IsStr(a) == a.t = "String"
\* create is taking the step that handles the argument at index creating.i.
Expanding == creating.pc = "expand" /\ creating' # creating
CurArg == ArgList[creating.i]
\* The files pattern p matches now.
MatchSet(p) == {f \in FileNames : ~fs[f].missing /\ GlobMatch(p, f)}
LeastOf(S) == CHOOSE f \in S : \A g \in S \ {f} : LexLess(f, g)
\* Expanding string argument a succeeds now: valid UTF-8, well-formed pattern, and
\* the directory can be listed when the pattern has to walk it.
GlobOk(a) == IsStr(a) /\ a.utf8 /\ "[" \notin Range(a.text) /\ ("*" \in Range(a.text) => listable)
HasNonString == call_args.some /\ \E i \in 1..Len(ArgList) : ~IsStr(ArgList[i])
FirstNonString == CHOOSE i \in 1..Len(ArgList) :
                     ~IsStr(ArgList[i]) /\ \A j \in 1..(i - 1) : IsStr(ArgList[j])
SchemaA == << [name |-> <<"i", "d">>, type |-> "Int64"], [name |-> <<"n", "a", "m", "e">>, type |-> "String"] >>
SchemaB == << [name |-> <<"n", "a", "m", "e">>, type |-> "String"] >>
SchemaOfFile(c) == IF c = MetaA THEN SchemaA ELSE SchemaB
IsErr(r, code, text) == r.kind = "Err" /\ r.code = code /\ r.msg = <<text>>

\* C4: with allow_insecure unset, create fails with StorageInsecure for every
\* argument list, before any argument is inspected, any pattern expanded or any
\* file opened: the call ends in its first step with an empty trace.
C4_InsecureRejected ==
    (creating.pc # "idle" /\ ~allow_insecure) =>
        /\ CreateDone
        /\ created.kind = "Err"
        /\ created.code = "StorageInsecure"
        /\ created.trace = <<>>
        /\ creating.i = 0 /\ creating.trace = <<>>

\* C4 witness: the flag is unset and the call had a fully valid argument list.
C4_Witness ==
    /\ CreateDone /\ ~allow_insecure
    /\ call_args = SomeArgs(<<StrArg(<<"a">>)>>)
    /\ fs[<<"a">>] = MetaA
    /\ created.code = "StorageInsecure"

\* C5 as stated: with the flag set, a list holding a non-string argument fails with
\* BadArguments "only accepts string arguments", whatever the other arguments are.
C5_Original ==
    (CreateDone /\ allow_insecure /\ HasNonString) =>
        IsErr(created, "BadArguments", "read_parquet only accepts string arguments")

\* C5 amended: with the flag set, a list holding a non-string argument never yields
\* a table; it fails with BadArguments "only accepts string arguments" exactly when
\* every argument before the first non-string one expands successfully at the
\* moment it is expanded (matching files or not); otherwise the first argument
\* whose expansion fails ends the call: a malformed pattern or an unlistable
\* directory gives Internal "glob error: " followed by the glob crate's error
\* text, bytes that are not UTF-8 make the unwrap panic.
C5_NonStringRejected ==
    /\ [][(Expanding /\ IsStr(CurArg)) =>
            IF GlobOk(CurArg)
            THEN creating'.pc \in {"expand", "finish"} /\ creating'.i = creating.i + 1
            ELSE /\ creating'.pc = "done" /\ creating'.i = creating.i
                 /\ IF ~CurArg.utf8
                    THEN created'.kind = "Panic"
                    ELSE /\ created'.kind = "Err" /\ created'.code = "Internal"
                         /\ created'.msg[1] = "glob error"
                         /\ created'.msg[2] = (IF "[" \in Range(CurArg.text)
                                              THEN "Pattern syntax error near position"
                                              ELSE "attempt to read")]_vars
    /\ []((CreateDone /\ allow_insecure /\ HasNonString) =>
            /\ created.kind # "Ok"
            /\ creating.i <= FirstNonString
            /\ creating.i = FirstNonString
                  <=> IsErr(created, "BadArguments", "read_parquet only accepts string arguments")
            /\ creating.i < FirstNonString =>
                  \/ created.kind = "Panic"
                  \/ created.kind = "Err" /\ created.code = "Internal"
                        /\ created.msg[1] = "glob error")

\* C5 witness: a numeric argument after a string argument that matched nothing.
C5_Witness ==
    /\ CreateDone /\ allow_insecure
    /\ call_args = SomeArgs(<<StrArg(<<"a">>), NumArg>>)
    /\ creating.i = 2 /\ creating.file_locations = <<>>
    /\ created.code = "BadArguments"

\* C6: with the flag set, "needs at least one argument" is the failure exactly when
\* the list is absent or empty, "No matched files" exactly when the list is
\* non-empty, every argument is a string whose expansion succeeded and no file was
\* matched by any expansion (each expansion adds exactly the files its pattern
\* matches at that moment); the messages differ and neither case yields a table.
C6_EmptyAndNoMatch ==
    /\ [][(Expanding /\ GlobOk(CurArg)) =>
            creating'.file_locations =
               creating.file_locations \o SortNames(MatchSet(CurArg.text))]_vars
    /\ []((CreateDone /\ allow_insecure) =>
            /\ IsErr(created, "BadArguments", "read_parquet needs at least one argument")
                  <=> (~call_args.some \/ ArgList = <<>>)
            /\ IsErr(created, "BadArguments", "No matched files found for read_parquet")
                  <=> /\ call_args.some /\ ArgList # <<>>
                      /\ \A i \in 1..Len(ArgList) : IsStr(ArgList[i])
                      /\ creating.i = Len(ArgList) + 1
                      /\ creating.file_locations = <<>>
            /\ (~call_args.some \/ ArgList = <<>> \/ created.msg = <<"No matched files found for read_parquet">>)
                  => created.kind = "Err" /\ created.value = <<>>)

\* C6 witness: two well-formed patterns, both expanded, none matching a file.
C6_Witness ==
    /\ CreateDone /\ allow_insecure
    /\ Len(ArgList) = 2
    /\ created.msg = <<"No matched files found for read_parquet">>
    /\ Len(created.trace) = 4

\* C7: the first resolved file is the least match of the first expansion that
\* matches anything and later expansions never displace it; create, once the loop
\* has resolved a file, succeeds exactly when that first file holds metadata with a
\* row group at the moment it is opened, the table's schema is that file's
\* lower-cased schema, and the outcome depends on what no other file holds.
C7_SchemaFromFirstFile ==
    /\ [][Expanding =>
            /\ creating.file_locations # <<>> =>
                  /\ creating'.file_locations # <<>>
                  /\ creating'.file_locations[1] = creating.file_locations[1]
            /\ (creating.file_locations = <<>> /\ GlobOk(CurArg) /\ MatchSet(CurArg.text) # {}) =>
                  /\ creating'.file_locations # <<>>
                  /\ creating'.file_locations[1] = LeastOf(MatchSet(CurArg.text))]_vars
    /\ [][(creating.pc = "finish" /\ creating'.pc = "done" /\ creating.file_locations # <<>>) =>
            LET first == creating.file_locations[1] IN
            /\ created'.kind = "Ok" <=> (fs[first].ok /\ fs[first].row_groups # <<>>)
            /\ created'.kind # "Ok" =>
                  created'.kind = "Err" /\ created'.code = "Internal" /\ created'.msg[2] = first
            /\ created'.kind = "Ok" =>
                  /\ created'.value.file_locations = creating.file_locations
                  /\ created'.value.table_info.schema = SchemaOfFile(fs[first])
            /\ \A g \in FileNames \ {first} : \A c \in Contents :
                  create_finish("default", "read_parquet", 1, ArgList, creating.file_locations,
                                creating.trace, [fs EXCEPT ![g] = c]) = created']_vars

\* C7 witness: construction has just succeeded on two resolved files whose second
\* one is corrupt.
C7_Witness ==
    /\ CreateDone /\ last = "create" /\ created.kind = "Ok"
    /\ Len(created.value.file_locations) = 2
    /\ ~fs[created.value.file_locations[2]].ok
    /\ created.value.file_locations[2] # created.value.file_locations[1]

(***************************************************************************)
(* Vocabulary of the enumeration claims                                    *)
(***************************************************************************)
ReadDone == reading.pc = "done"
Listed == created.value.file_locations
\* read_file_metas is taking the step that opens the file at index reading.i.
Opening == reading.pc = "read" /\ reading' # reading
CurFile == Listed[reading.i]

\* C8: read_file_metas is all-or-nothing: a file that can be opened and decoded
\* when its turn comes adds one entry with its location and metadata, and after
\* the last file the call returns one entry per listed file, in list order; a file
\* that cannot be opened or decoded ends the call with an error naming its
\* location and no entry at all.
C8_AllOrNothing ==
    /\ [][Opening =>
            IF fs[CurFile].ok
            THEN LET entries == Append(reading.acc, [location |-> CurFile, file_meta |-> fs[CurFile]]) IN
                 IF reading.i < Len(Listed)
                 THEN /\ reading'.pc = "read" /\ reading'.i = reading.i + 1
                      /\ reading'.acc = entries
                      /\ lastRead'.kind = "None"
                 ELSE /\ reading'.pc = "done"
                      /\ lastRead'.kind = "Ok" /\ lastRead'.value = entries
            ELSE /\ reading'.pc = "done" /\ reading'.i = reading.i
                 /\ lastRead'.kind = "Err" /\ lastRead'.code = "Internal"
                 /\ lastRead'.msg = <<IF fs[CurFile].missing
                                      THEN "Failed to open file"
                                      ELSE "Read parquet file meta error", CurFile>>
                 /\ lastRead'.value = <<>>]_vars
    /\ [](ReadDone =>
            /\ lastRead.kind \in {"Ok", "Err"}
            /\ lastRead.kind = "Ok" =>
                  /\ Len(lastRead.value) = Len(Listed)
                  /\ \A i \in 1..Len(Listed) :
                        /\ lastRead.value[i].location = Listed[i]
                        /\ lastRead.value[i].file_meta \in Metas
            /\ lastRead.kind = "Err" =>
                  /\ lastRead.value = <<>>
                  /\ lastRead.msg[2] = Listed[reading.i])

\* C8 witness: the call failed on the second listed file after reading the first.
C8_Witness ==
    /\ ReadDone /\ lastRead.kind = "Err"
    /\ Len(Listed) = 2 /\ Listed[1] # Listed[2]
    /\ reading.i = 2

\* C9: after construction the table (file list, schema, arguments) never changes,
\* and no enumeration call reuses metadata: a call starts from an empty collection
\* whatever the call before it returned, and each of its steps opens the next
\* listed file and takes what that file holds at that moment, failing exactly when
\* the file cannot be read then.
C9_ImmutableAndReread ==
    /\ [][(created.kind = "Ok" /\ created'.kind = "Ok") => created' = created]_vars
    /\ [][last' = "read" =>
            \/ /\ created.kind = "Ok" /\ reading.pc # "read"
               /\ reading' = [pc |-> "read", i |-> 1, acc |-> <<>>, trace |-> <<>>]
               /\ lastRead' = NoCall
            \/ /\ reading.pc = "read"
               /\ reading'.trace = Append(reading.trace, <<"open", CurFile>>)
               /\ lastRead'.kind = "Err" <=> ~fs[CurFile].ok
               /\ fs[CurFile].ok =>
                     (IF reading'.pc = "done" THEN lastRead'.value ELSE reading'.acc)[reading.i].file_meta
                        = fs[CurFile]]_vars

\* C9 witness: a call has just returned, for the first file, metadata whose schema
\* is no longer the one the table inferred at construction.
C9_Witness ==
    /\ ReadDone /\ last = "read" /\ lastRead.kind = "Ok"
    /\ created.value.table_info.schema = SchemaA
    /\ lastRead.value[1].file_meta = MetaB

(***************************************************************************)
(* 64-bit words.  TLC's integers are 32 bits wide, so a u64 is four 16-bit  *)
(* limbs, least significant first.                                         *)
(***************************************************************************)
Limb == 2 ^ 16
W64(a, b, c, d) == <<a, b, c, d>>
Pow2(n) == 2 ^ n

RECURSIVE XorBits(_, _, _)
XorBits(a, b, n) ==
    IF n = 0 THEN 0
    ELSE (((a % 2) + (b % 2)) % 2) + 2 * XorBits(a \div 2, b \div 2, n - 1)

\* The xor of two 4-bit values, tabulated once.
XorNibble == [a \in 0..15 |-> [b \in 0..15 |-> XorBits(a, b, 4)]]

Xor16(a, b) ==
    XorNibble[a % 16][b % 16]
    + 16 * XorNibble[(a \div 16) % 16][(b \div 16) % 16]
    + 256 * XorNibble[(a \div 256) % 16][(b \div 256) % 16]
    + 4096 * XorNibble[a \div 4096][b \div 4096]

\* Operands are bound to their values once (a \in {x}), so that an operand
\* that is itself a long computation is evaluated a single time.
Xor64(x, y) ==
    CHOOSE r \in {<<Xor16(a[1], b[1]), Xor16(a[2], b[2]), Xor16(a[3], b[3]), Xor16(a[4], b[4])>> :
                    a \in {x}, b \in {y}} : TRUE

\* wrapping_add
Add64(x, y) ==
    CHOOSE r \in {LET s1 == a[1] + b[1]
                      s2 == a[2] + b[2] + (s1 \div Limb)
                      s3 == a[3] + b[3] + (s2 \div Limb)
                      s4 == a[4] + b[4] + (s3 \div Limb)
                  IN <<s1 % Limb, s2 % Limb, s3 % Limb, s4 % Limb>> :
                  a \in {x}, b \in {y}} : TRUE

\* rotate_left
Rotl64(x, r) ==
    CHOOSE w \in {LET q == r \div 16
                      s == r % 16
                      limb(i) == a[((i - 1) % 4) + 1]
                      part(i) == ((limb(i - q + 4) * Pow2(s)) % Limb)
                                 + (limb(i - q - 1 + 4) \div Pow2(16 - s))
                  IN <<part(1), part(2), part(3), part(4)>> :
                  a \in {x}} : TRUE

(***************************************************************************)
(* std::collections::hash_map::DefaultHasher: SipHash-1-3 with keys 0, 0   *)
(***************************************************************************)
SipInit == << W64(25973, 28787, 28005, 29551),    \* 0x736f6d6570736575
              W64(28525, 28260, 29281, 25711),    \* 0x646f72616e646f6d
              W64(29281, 28261, 26469, 27769),    \* 0x6c7967656e657261
              W64(25971, 31092, 25698, 29797) >>  \* 0x7465646279746573

SipRound(v) ==
    CHOOSE r \in
      UNION {UNION {UNION {
        {<<d0, Xor64(Rotl64(b1, 17), d2), Rotl64(d2, 32), Xor64(Rotl64(b3, 21), d0)>> :
            d0 \in {Add64(Rotl64(a0, 32), b3)}, d2 \in {Add64(a2, b1)}} :
          b1 \in {Xor64(Rotl64(s[2], 13), a0)}, b3 \in {Xor64(Rotl64(s[4], 16), a2)}} :
        a0 \in {Add64(s[1], s[2])}, a2 \in {Add64(s[3], s[4])}} :
      s \in {v}} : TRUE

ByteAt(bytes, i) == IF i <= Len(bytes) THEN bytes[i] ELSE 0

\* The little-endian word of the up to eight bytes from position i on.
WordAt(bytes, i) ==
    LET pair(j) == ByteAt(bytes, i + 2 * (j - 1)) + (256 * ByteAt(bytes, i + 2 * (j - 1) + 1))
    IN <<pair(1), pair(2), pair(3), pair(4)>>

SipCompress(v, m) ==
    CHOOSE r \in
      UNION {{<<Xor64(w[1], b), w[2], w[3], w[4]>> :
                w \in {SipRound(<<s[1], s[2], s[3], Xor64(s[4], b)>>)}} :
             s \in {v}, b \in {m}} : TRUE

\* Hasher::write over all the bytes, block by block from position i on, then finish.
RECURSIVE SipBlocks(_, _, _)
SipBlocks(v, bytes, i) ==
    IF i + 7 <= Len(bytes)
    THEN SipBlocks(SipCompress(v, WordAt(bytes, i)), bytes, i + 8)
    ELSE CHOOSE r \in
           UNION {UNION {
             {Xor64(Xor64(f[1], f[2]), Xor64(f[3], f[4])) :
                f \in {SipRound(SipRound(SipRound(
                          <<w[1], w[2], Xor64(w[3], W64(255, 0, 0, 0)), w[4]>>)))}} :
               w \in {SipCompress(v, <<tail[1], tail[2], tail[3],
                                       tail[4] + (256 * (Len(bytes) % 256))>>)}} :
             tail \in {WordAt(bytes, i)}} : TRUE

SipHash13(bytes) == SipBlocks(SipInit, bytes, 1)

ByteOf(c) ==
    CASE c = "a" -> 97 [] c = "b" -> 98 [] c = "c" -> 99 [] c = "d" -> 100
      [] c = "/" -> 47 [] c = "." -> 46 [] c = "p" -> 112 [] c = "q" -> 113
      [] c = "*" -> 42 [] c = "[" -> 91 [] OTHER -> 63

as_bytes(str) == [i \in 1..Len(str) |-> ByteOf(str[i])]

\* impl Hash for str: the bytes, then 0xff.
hash_str(str) == Append(as_bytes(str), 255)

(***************************************************************************)
(* ParquetPartInfo                                                         *)
(***************************************************************************)
\* u64 as usize: the crate builds for 64-bit targets, where usize keeps all four limbs.
as_usize(w) == <<w[1], w[2], w[3], w[4]>>

ParquetPartInfo_create(location, format_version, rows_count, columns_meta) ==
    [kind |-> "parquet",
     location |-> location,
     format_version |-> format_version,
     columns_meta |-> columns_meta,
     nums_rows |-> as_usize(rows_count)]

\* A descriptor of another concrete variant (its type tag is not "parquet"),
\* holding the same kind of fields.
OtherPartInfo_create(location, format_version, rows_count, columns_meta) ==
    [kind |-> "fuse",
     location |-> location,
     format_version |-> format_version,
     columns_meta |-> columns_meta,
     nums_rows |-> as_usize(rows_count)]

\* Mutant of equals: format_version is left out of the comparison.
equals_ignore_version(self, info) ==
    IF info.kind # "parquet" THEN FALSE
    ELSE /\ self.location = info.location
         /\ self.nums_rows = info.nums_rows
         /\ self.columns_meta = info.columns_meta

\* downcast_ref::<ParquetPartInfo>() on the argument, then the derived PartialEq.
equals(self, info) ==
    IF info.kind # "parquet" THEN FALSE
    ELSE /\ self.location = info.location
         /\ self.format_version = info.format_version
         /\ self.nums_rows = info.nums_rows
         /\ self.columns_meta = info.columns_meta

\* u64::to_ne_bytes on a little-endian target.
le_bytes(w) == [i \in 1..8 |-> IF i % 2 = 1 THEN w[(i + 1) \div 2] % 256 ELSE w[i \div 2] \div 256]

\* Mutant of hash: format_version is hashed after the location.
hash_with_version(self) == SipHash13(hash_str(self.location) \o le_bytes(self.format_version))

hash(self) == SipHash13(hash_str(self.location))

\* Mutant of from_part: the descriptor is used whatever its variant.
from_part_unchecked(info) == [ok |-> TRUE, code |-> "", msg |-> "", value |-> info]

from_part(info) ==
    IF info.kind = "parquet"
    THEN [ok |-> TRUE, code |-> "", msg |-> "", value |-> info]
    ELSE [ok |-> FALSE, code |-> "Internal",
          msg |-> "Cannot downcast from PartInfo to FusePartInfo.", value |-> <<>>]

(***************************************************************************)
(* The partition machine: two descriptors are created, then compared,      *)
(* hashed and downcast.                                                    *)
(***************************************************************************)
Locations == {<<"a">>, <<"/", "d", "/", "a", ".", "p", "q">>}
VersionValues == {W64(0, 0, 0, 0), W64(2, 0, 0, 0)}
RowValues == {W64(7, 0, 0, 0), W64(0, 0, 1, 0)}
ColMetaValues == {[offset |-> 4, length |-> 10], [offset |-> 14, length |-> 20]}
ColumnsMetaValues == UNION {[S -> ColMetaValues] : S \in SUBSET (0..(NumCols - 1))}

Given(variant, location, format_version, rows_count, columns_meta) ==
    [variant |-> variant, location |-> location, format_version |-> format_version,
     rows_count |-> rows_count, columns_meta |-> columns_meta]

PartInit == TableIdle /\ PartIdle /\ CursorIdle

PartCreateA ==
    /\ ~partA.made
    /\ \E l \in Locations, v \in VersionValues, r \in RowValues, c \in ColumnsMetaValues :
          partA' = [made |-> TRUE, given |-> Given("parquet", l, v, r, c),
                    ptr |-> ParquetPartInfo_create(l, v, r, c)]
    /\ out' = IdleOut
    /\ UNCHANGED <<tableVars, partB, cur>>

PartCreateB ==
    /\ ~partB.made
    /\ \E l \in Locations, v \in VersionValues, r \in RowValues, c \in ColumnsMetaValues :
          partB' = [made |-> TRUE, given |-> Given("parquet", l, v, r, c),
                    ptr |-> ParquetPartInfo_create(l, v, r, c)]
    /\ out' = IdleOut
    /\ UNCHANGED <<tableVars, partA, cur>>

PartCreateOther ==
    /\ ~partB.made
    /\ \E l \in Locations, v \in VersionValues, r \in RowValues, c \in ColumnsMetaValues :
          partB' = [made |-> TRUE, given |-> Given("fuse", l, v, r, c),
                    ptr |-> OtherPartInfo_create(l, v, r, c)]
    /\ out' = IdleOut
    /\ UNCHANGED <<tableVars, partA, cur>>

PartEquals ==
    /\ partA.made /\ partB.made
    /\ out' = [op |-> "equals", ok |-> TRUE, value |-> equals(partA.ptr, partB.ptr)]
    /\ UNCHANGED <<tableVars, partA, partB, cur>>

PartHash ==
    /\ partA.made /\ partB.made /\ partB.ptr.kind = "parquet"
    /\ out' = [op |-> "hash", ok |-> TRUE, value |-> <<hash(partA.ptr), hash(partB.ptr)>>]
    /\ UNCHANGED <<tableVars, partA, partB, cur>>

PartFromPart ==
    /\ partB.made
    /\ LET r == from_part(partB.ptr) IN
       out' = [op |-> "from_part", ok |-> r.ok, value |-> r]
    /\ UNCHANGED <<tableVars, partA, partB, cur>>

PartNext ==
    PartCreateA \/ PartCreateB \/ PartCreateOther \/ PartEquals \/ PartHash \/ PartFromPart

SpecPart == PartInit /\ [][PartNext]_vars

\* C1: a.equals(b) is true exactly when b is a ParquetPartInfo too and location,
\* format_version, nums_rows and columns_meta are all equal; one differing field,
\* or another variant, makes it false.
C1_EqualsFieldwise ==
    out.op = "equals" =>
        (out.value <=>
            /\ partB.given.variant = "parquet"
            /\ partA.given.location = partB.given.location
            /\ partA.given.format_version = partB.given.format_version
            /\ partA.given.rows_count = partB.given.rows_count
            /\ partA.given.columns_meta = partB.given.columns_meta)

\* C1 witness: equals returned false for two partitions differing in
\* format_version alone.
C1_Witness ==
    /\ out.op = "equals" /\ ~out.value
    /\ partB.given.variant = "parquet"
    /\ partA.given.format_version # partB.given.format_version
    /\ partA.given.location = partB.given.location
    /\ partA.given.rows_count = partB.given.rows_count
    /\ partA.given.columns_meta = partB.given.columns_meta

\* C2: two partitions with the same location have the same hash, whatever their
\* format_version, row count and column metadata, and equals is false between them
\* whenever one of those differs.
C2_HashLocationOnly ==
    (out.op = "hash" /\ partA.given.location = partB.given.location) =>
        /\ out.value[1] = out.value[2]
        /\ (\/ partA.given.format_version # partB.given.format_version
            \/ partA.given.rows_count # partB.given.rows_count
            \/ partA.given.columns_meta # partB.given.columns_meta)
              => ~equals(partA.ptr, partB.ptr)

\* C2 witness: equal hashes (0x719b50b9a4f0e9f3, the SipHash-1-3 of "a" and 0xff)
\* for two partitions at "a" that differ in every other field.
C2_Witness ==
    /\ out.op = "hash"
    /\ partA.given.location = <<"a">> /\ partB.given.location = <<"a">>
    /\ partA.given.format_version # partB.given.format_version
    /\ partA.given.rows_count # partB.given.rows_count
    /\ partA.given.columns_meta # partB.given.columns_meta
    /\ out.value = << W64(59891, 42224, 20665, 29083), W64(59891, 42224, 20665, 29083) >>

\* C3: from_part returns the view exactly for a descriptor made by
\* ParquetPartInfo::create, with the four values passed to create; for another
\* variant it returns an Internal error and no view.
C3_FromPartRoundTrip ==
    out.op = "from_part" =>
        /\ out.ok <=> partB.given.variant = "parquet"
        /\ out.ok =>
              /\ out.value.value.location = partB.given.location
              /\ out.value.value.format_version = partB.given.format_version
              /\ out.value.value.nums_rows = partB.given.rows_count
              /\ out.value.value.columns_meta = partB.given.columns_meta
        /\ ~out.ok => out.value.code = "Internal" /\ out.value.value = <<>>

\* C3 witness: a downcast that returned a view with a row count of 2^32.
C3_Witness ==
    /\ out.op = "from_part" /\ out.ok
    /\ partB.given.rows_count = W64(0, 0, 1, 0)
    /\ partB.given.columns_meta # <<>>

(***************************************************************************)
(* BufferReadStringExt over Cursor<T>.  A cursor is its bytes (data) and   *)
(* its position (pos, 0-based, possibly past the end).                     *)
(***************************************************************************)
BackSlash == 92
QuotaValues == {39}
CursorBytes == {BackSlash, 39, 9, 110, 120, 52, 122}

\* Cursor::remaining_slice: the bytes from min(pos, len) on.
remaining_slice(c) == SubSeq(c.data, (IF c.pos < Len(c.data) THEN c.pos ELSE Len(c.data)) + 1, Len(c.data))

\* BufRead::consume
consume(c, amt) == [c EXCEPT !.pos = c.pos + amt]

\* ReadBytesExt::ignore_byte: skips the next byte when it is b.
ignore_byte_hits(c, b) == remaining_slice(c) # <<>> /\ remaining_slice(c)[1] = b
ignore_byte(c, b) == IF ignore_byte_hits(c, b) THEN consume(c, 1) ELSE c

\* ReadBytesExt::keep_read: moves to buf the longest run of bytes outside stop.
RECURSIVE run_length(_, _)
run_length(bytes, stop) ==
    IF bytes = <<>> \/ Head(bytes) \in stop THEN 0 ELSE 1 + run_length(Tail(bytes), stop)

keep_read(c, stop) ==
    LET n == run_length(remaining_slice(c), stop)
    IN [consume(c, n) EXCEPT !.buf = c.buf \o SubSeq(remaining_slice(c), 1, n)]

unescape(c) ==
    CASE c = 97 -> 7 [] c = 98 -> 8 [] c = 118 -> 11 [] c = 102 -> 12 [] c = 101 -> 27
      [] c = 110 -> 10 [] c = 114 -> 13 [] c = 116 -> 9 [] c = 48 -> 0 [] OTHER -> c

is_control_ascii(c) == c <= 31

hex_char_to_digit(c) ==
    IF c >= 65 /\ c <= 70 THEN c - 65 + 10
    ELSE IF c >= 97 /\ c <= 102 THEN c - 97 + 10
    ELSE IF c >= 48 /\ c <= 57 THEN c - 48
    ELSE 255

Finish(c, pc, err) == [c EXCEPT !.pc = pc, !.err = err]
Push(c, bytes) == [c EXCEPT !.buf = c.buf \o bytes]

\* read_quoted_text up to its loop: must_ignore_byte(quota)?
quoted_open(c) ==
    IF ignore_byte_hits(c, c.quota)
    THEN Finish(ignore_byte(c, c.quota), "loop", "")
    ELSE Finish(c, "err", "InvalidData")

\* One iteration of the loop of read_quoted_text.
quoted_step(c) ==
    LET k == keep_read(c, {c.quota, BackSlash}) IN
    IF ignore_byte_hits(k, k.quota) THEN Finish(ignore_byte(k, k.quota), "ok", "")
    ELSE IF ignore_byte_hits(k, BackSlash)
    THEN LET e == ignore_byte(k, BackSlash)
             b == remaining_slice(e)
         IN IF b = <<>> THEN Finish(e, "err", "InvalidData")
            ELSE LET ch == b[1]
                     n == ignore_byte(e, ch)
                 IN CASE ch = 110 -> Push(n, <<10>>)
                      [] ch = 116 -> Push(n, <<9>>)
                      [] ch = 114 -> Push(n, <<13>>)
                      [] ch = 48 -> Push(n, <<0>>)
                      [] ch = 39 -> Push(n, <<39>>)
                      [] ch = 92 -> Push(n, <<92>>)
                      [] ch = 34 -> Push(n, <<34>>)
                      [] OTHER -> Push(n, <<92, ch>>)
    ELSE Finish(k, "err", "InvalidData")

\* One iteration of the loop of read_escaped_string_text.  buffer[0] on an empty
\* remaining slice panics; high * 0x10 + low on u8 panics when it overflows and
\* overflow checks are compiled in, and wraps otherwise.  Read::read_exact leaves
\* open how much a failed call consumes: std either leaves the cursor where it was
\* or moves it to the end of the data (eof_at_end).
escaped_step(c, eof_at_end) ==
    LET k == keep_read(c, {9, 10, BackSlash}) IN
    IF ignore_byte_hits(k, BackSlash)
    THEN LET e == ignore_byte(k, BackSlash)
             buffer == remaining_slice(e)
         IN IF buffer = <<>> THEN Finish(e, "panic", "index out of bounds")
            ELSE LET ch == buffer[1] IN
                 IF ch \in {39, 34, 92, 47, 96} THEN consume(Push(e, <<ch>>), 1)
                 ELSE IF ch = 78 THEN consume(e, 1)
                 ELSE IF ch = 120
                 THEN LET x == consume(e, 1)
                          rest == remaining_slice(x)
                      IN IF Len(rest) < 2
                         THEN Finish(IF eof_at_end THEN [x EXCEPT !.pos = Len(x.data)] ELSE x,
                                     "err", "UnexpectedEof")
                         ELSE LET high == hex_char_to_digit(rest[1])
                                  low == hex_char_to_digit(rest[2])
                                  y == consume(x, 2)
                              IN IF high * 16 > 255
                                 THEN IF c.overflow_checks
                                      THEN Finish(y, "panic", "attempt to multiply with overflow")
                                      ELSE Push(y, <<(((high * 16) % 256) + low) % 256>>)
                                 ELSE IF high * 16 + low > 255
                                 THEN IF c.overflow_checks
                                      THEN Finish(y, "panic", "attempt to add with overflow")
                                      ELSE Push(y, <<(high * 16 + low) % 256>>)
                                 ELSE Push(y, <<high * 16 + low>>)
                 ELSE LET u == unescape(ch) IN
                      consume(Push(e, IF is_control_ascii(u) THEN <<u>> ELSE <<92, u>>), 1)
    ELSE Finish(k, "ok", "")

(***************************************************************************)
(* The cursor machine: a call starts on any bytes at any position, with    *)
(* either build profile, and runs its loop one iteration per step.         *)
(***************************************************************************)
CursorInit ==
    /\ TableIdle /\ PartIdle
    /\ \E fn \in {"quoted", "escaped"}, data \in SeqsUpTo(CursorBytes, MaxLen), checks \in BOOLEAN :
          \E pos \in 0..(Len(data) + 1), quota \in QuotaValues :
             cur = [fn |-> fn, data |-> data, pos |-> pos, buf |-> <<>>, quota |-> quota,
                    overflow_checks |-> checks,
                    pc |-> IF fn = "quoted" THEN "start" ELSE "loop", err |-> ""]

QuotedOpen ==
    /\ cur.fn = "quoted" /\ cur.pc = "start"
    /\ cur' = quoted_open(cur)
    /\ UNCHANGED <<tableVars, partVars>>

QuotedStep ==
    /\ cur.fn = "quoted" /\ cur.pc = "loop"
    /\ cur' = quoted_step(cur)
    /\ UNCHANGED <<tableVars, partVars>>

EscapedStep ==
    /\ cur.fn = "escaped" /\ cur.pc = "loop"
    /\ \E eof_at_end \in BOOLEAN : cur' = escaped_step(cur, eof_at_end)
    /\ UNCHANGED <<tableVars, partVars>>

CursorNext == QuotedOpen \/ QuotedStep \/ EscapedStep

SpecCursor == CursorInit /\ [][CursorNext]_vars

\* C10: on every input and position both readers end with Ok or an Err value and
\* never index past the end of the bytes; read_quoted_text answers a trailing
\* backslash with InvalidData.
C10_NoOutOfBounds ==
    /\ cur.pc # "panic"
    /\ (cur.fn = "quoted" /\ cur.pc \in {"ok", "err"} /\ cur.data # <<>>
          /\ cur.data[Len(cur.data)] = BackSlash /\ cur.pos = Len(cur.data)
          /\ Len(cur.data) >= 2 /\ cur.data[Len(cur.data) - 1] # BackSlash
          /\ cur.data[1] = cur.quota /\ cur.quota \notin Range(Tail(cur.data)))
        => cur.err = "InvalidData"

=============================================================================
